---- MODULE Spec2Model ----
(***************************************************************************)
(* Model of the derived operations of grapher_admin/models.py:             *)
(*   Chart.find_with_redirects  (slug redirect resolver)                   *)
(*   Chart.get_config_with_url  (config resolver)                          *)
(*   Chart.make_cache_tag       (cache tag deriver)                        *)
(* The relational store is drawn at Init from bounded sets that respect    *)
(* the constraints the model classes declare; each operation is an action  *)
(* that records its outcome.                                               *)
(*                                                                         *)
(* Conventions.  A Python str is a sequence of one-character strings.  A   *)
(* nullable value is a set with at most one element: {} is None / NULL,    *)
(* {v} is the value v.  An outcome is a record with a kind: a returned     *)
(* value or the exception that left the method.                            *)
(***************************************************************************)
EXTENDS Integers, Sequences, FiniteSets, TLC

VARIABLES charts, redirects, found,
          cfgChart, logos, resolved,
          tagChart, variables, lastTag

vars == <<charts, redirects, found, cfgChart, logos, resolved,
          tagChart, variables, lastTag>>

resolverVars == <<charts, redirects, found>>
configVars == <<cfgChart, logos, resolved>>
tagVars == <<tagChart, variables, lastTag>>

----------------------------------------------------------------------------
(* Bounds *)

\* largest primary key of a Chart row in the store
MaxChartId == 2
\* longest identifier handed to find_with_redirects
MaxLen == 2

----------------------------------------------------------------------------
(* Nullable values and strings *)

None == {}
Some(v) == {v}
IsNull(x) == x = {}
TheValue(x) == CHOOSE v \in x : TRUE

Digits == {"0", "1", "2", "3", "4", "5", "6", "7", "8", "9"}

DigitVal(c) ==
    CASE c = "0" -> 0 [] c = "1" -> 1 [] c = "2" -> 2 [] c = "3" -> 3
      [] c = "4" -> 4 [] c = "5" -> 5 [] c = "6" -> 6 [] c = "7" -> 7
      [] c = "8" -> 8 [] c = "9" -> 9

RECURSIVE DigitsValue(_)
DigitsValue(s) ==
    IF s = <<>> THEN 0
    ELSE 10 * DigitsValue(SubSeq(s, 1, Len(s) - 1)) + DigitVal(s[Len(s)])

AllDigits(s) == Len(s) > 0 /\ \A i \in 1..Len(s) : s[i] \in Digits

\* int(slug) with its ValueError turned into None: an optional sign and then
\* one or more decimal digits (leading zeros allowed); anything else does not
\* parse.  Whitespace and underscores are outside the modelled alphabet.
ParseInt(s) ==
    IF AllDigits(s) THEN Some(DigitsValue(s))
    ELSE IF Len(s) > 1 /\ s[1] = "-" /\ AllDigits(Tail(s))
         THEN Some(0 - DigitsValue(Tail(s)))
    ELSE IF Len(s) > 1 /\ s[1] = "+" /\ AllDigits(Tail(s))
         THEN Some(DigitsValue(Tail(s)))
    ELSE None

----------------------------------------------------------------------------
(* Slug redirect resolver: the store *)

IdentChars == {"0", "2", "a", "-"}

Identifiers == UNION {[1..n -> IdentChars] : n \in 0..MaxLen}

\* slugs that rows of the store carry
StoredSlugs == {<<"2">>, <<"a">>}

ChartIds == 1..MaxChartId

\* Chart.slug is nullable; Chart.published is a BooleanField without
\* null=True, so the stored marker is never NULL.
ChartRows == [slug : {None} \cup {Some(s) : s \in StoredSlugs},
              published : {Some(TRUE), Some(FALSE)}]

\* unique_together = (('slug', 'published'),): SQL uniqueness does not
\* constrain rows whose slug is NULL.
UniqueSlugPublished(cs) ==
    \A i, j \in DOMAIN cs :
        (i # j /\ ~IsNull(cs[i].slug) /\ cs[i].slug = cs[j].slug)
            => cs[i].published # cs[j].published

ChartStores ==
    {cs \in UNION {[S -> ChartRows] : S \in SUBSET ChartIds} :
        UniqueSlugPublished(cs)}

\* ChartSlugRedirect: slug is unique, chart_id is a plain IntegerField, so
\* it may name an id no Chart row has.
RedirectStores ==
    UNION {[S -> 1..(MaxChartId + 1)] : S \in SUBSET StoredSlugs}

----------------------------------------------------------------------------
(* Slug redirect resolver: the method *)

Returned(kind, id) == [kind |-> kind, id |-> id]

\* Q(slug=slug) | Q(pk=intslug), published__isnull=False
\* (pk=None is the lookup pk IS NULL, which no row satisfies)
FirstStage(cs, slug, intslug) ==
    {i \in DOMAIN cs :
        /\ \/ cs[i].slug = Some(slug)
           \/ (~IsNull(intslug) /\ i = TheValue(intslug))
        /\ ~IsNull(cs[i].published)}

\* Chart.objects.get(pk=redirect.chart_id, published__isnull=False)
SecondStage(cs, target) ==
    {i \in DOMAIN cs : i = target /\ ~IsNull(cs[i].published)}

\* QuerySet.get on a set of matching rows
Get(rows) ==
    IF rows = {} THEN Returned("DoesNotExist", 0)
    ELSE IF Cardinality(rows) > 1 THEN Returned("MultipleObjectsReturned", 0)
    ELSE Returned("chart", CHOOSE i \in rows : TRUE)

find_with_redirects(cs, rs, slug) ==
    LET intslug == ParseInt(slug)
        first == Get(FirstStage(cs, slug, intslug))
    IN  IF first.kind # "DoesNotExist" THEN first
        ELSE IF slug \notin DOMAIN rs THEN Returned("False", 0)
        ELSE Get(SecondStage(cs, rs[slug]))

NoCall == [slug |-> <<>>, outcome |-> Returned("none", 0)]

FindWithRedirects ==
    /\ \E slug \in Identifiers :
          found' = [slug |-> slug,
                    outcome |-> find_with_redirects(charts, redirects, slug)]
    /\ UNCHANGED <<charts, redirects, configVars, tagVars>>

----------------------------------------------------------------------------
(* Config resolver: the store *)

\* most names a stored `logos` list holds
MaxLogoNames == 2
\* largest primary key of a Logo row
MaxLogoId == 2

Range(f) == {f[x] : x \in DOMAIN f}

\* all orders in which a query without ORDER BY may return the rows `ids`
Orders(ids) ==
    {o \in [1..Cardinality(ids) -> ids] :
        \A i, j \in 1..Cardinality(ids) : i # j => o[i] # o[j]}

LogoNames == {"owid", "who"}

\* the payload is the row's own text; rows are told apart by it
SvgOf(id) == [svg |-> id]

\* Logo.name is not unique
LogoStores ==
    UNION {[S -> LogoNames] : S \in SUBSET (1..MaxLogoId)}

LogoRow(ls, id) == [name |-> ls[id], svg |-> SvgOf(id)]

OverrideKeys ==
    {"id", "title", "chart-type", "internalNotes", "slug", "data-entry-url",
     "published"}

\* a stored blob whose override keys all carry values the relational fields
\* do not have
StaleOverrides ==
    [k \in OverrideKeys |->
        CASE k = "id" -> 0
          [] k = "title" -> "stale title"
          [] k = "chart-type" -> Some("ScatterPlot")
          [] k = "internalNotes" -> "stale notes"
          [] k = "slug" -> Some(<<"z">>)
          [] k = "data-entry-url" -> "stale url"
          [] k = "published" -> FALSE]

DictSet(d, k, v) ==
    [x \in (DOMAIN d) \cup {k} |-> IF x = k THEN v ELSE d[x]]

DictMerge(d, e) ==
    [x \in (DOMAIN d) \cup (DOMAIN e) |-> IF x \in DOMAIN e THEN e[x] ELSE d[x]]

LogoLists == UNION {[1..n -> LogoNames] : n \in 0..MaxLogoNames}

\* the JSON objects a Chart.config text may decode to
Blobs ==
    {DictMerge(DictMerge(DictMerge([k \in {"subtitle"} |-> "sub"], st), lg), sv) :
        st \in {<<>>, StaleOverrides},
        lg \in {<<>>} \cup {[k \in {"logos"} |-> l] : l \in LogoLists},
        sv \in {<<>>, [k \in {"logosSVG"} |-> <<SvgOf(0)>>]}}

\* Chart.config is a TextField: either it decodes to a JSON object or
\* json.loads raises
ConfigTexts ==
    {[valid |-> FALSE, obj |-> <<>>]} \cup {[valid |-> TRUE, obj |-> b] : b \in Blobs}

CfgCharts ==
    [pk : ChartIds,
     name : {"Life expectancy"},
     type : {None, Some("LineChart")},
     notes : {"internal note"},
     slug : {None, Some(<<"a">>)},
     origin_url : {"https://example.org/entry"},
     published : BOOLEAN,
     config : ConfigTexts]

----------------------------------------------------------------------------
(* Config resolver: the method *)

Outcome(kind, value) == [kind |-> kind, value |-> value]

\* config['id'] = chart.pk ... config['published'] = chart.published
WithOverrides(config, chart) ==
    LET c1 == DictSet(config, "id", chart.pk)
        c2 == DictSet(c1, "title", chart.name)
        c3 == DictSet(c2, "chart-type", chart.type)
        c4 == DictSet(c3, "internalNotes", chart.notes)
        c5 == DictSet(c4, "slug", chart.slug)
        c6 == DictSet(c5, "data-entry-url", chart.origin_url)
    IN  DictSet(c6, "published", chart.published)

\* Logo.objects.filter(name__in=names): the matching rows, as a set
LogoFilter(ls, names) == {i \in DOMAIN ls : ls[i] \in Range(names)}

\* for each in list(<queryset>): logos.append(each.svg)
CollectSvg(ls, order) == [i \in 1..Len(order) |-> LogoRow(ls, order[i]).svg]

\* `order` is the order in which the store returned the matching rows
get_config_with_url(chart, ls, order) ==
    IF ~chart.config.valid THEN Outcome("JSONDecodeError", <<>>)
    ELSE LET config == WithOverrides(chart.config.obj, chart)
         IN  IF "logos" \notin DOMAIN config THEN Outcome("KeyError", <<>>)
             ELSE Outcome("config",
                          DictSet(config, "logosSVG", CollectSvg(ls, order)))

\* the orders the store may answer the Logo query of `chart` in
LogoOrders(chart, ls) ==
    IF chart.config.valid /\ "logos" \in DOMAIN chart.config.obj
    THEN Orders(LogoFilter(ls, chart.config.obj["logos"]))
    ELSE {<<>>}

NoConfig == [order |-> <<>>, outcome |-> Outcome("none", <<>>)]

GetConfigWithUrl ==
    /\ \E order \in LogoOrders(cfgChart, logos) :
          resolved' = [order |-> order,
                       outcome |-> get_config_with_url(cfgChart, logos, order)]
    /\ UNCHANGED <<cfgChart, logos, resolverVars, tagVars>>

----------------------------------------------------------------------------
(* Cache tag deriver: the store *)

\* largest primary key of a Variable row
MaxVarId == 2
\* most entries a stored `chart-dimensions` list holds
MaxDims == 2

\* A datetime is a number of clock ticks; str() of it renders the number in
\* decimal, so renderings differ in length as str(datetime) does.
Times == {9, 10}

VarIdSet == 1..MaxVarId

\* Variable.updated_at is nullable
VariableStores ==
    UNION {[S -> {None} \cup {Some(t) : t \in Times}] : S \in SUBSET VarIdSet}

\* the row orders of the whole table: a query without ORDER BY returns the
\* rows it matches in an order the store chooses
Ranks == Orders(VarIdSet)

\* a JSON number or a JSON string
JsonNum(n) == [num |-> n]
JsonStr(s) == [str |-> s]

\* the values a variableId holds: an integer, or a string of decimal digits
\* (values int() rejects are outside the modelled configurations)
VarIdValues == {JsonNum(i) : i \in VarIdSet} \cup {JsonStr(<<"1">>)}

Dimensions ==
    {[property |-> "y"]} \cup
    {[property |-> "y", variableId |-> v] : v \in VarIdValues}

DimLists == UNION {[1..n -> Dimensions] : n \in 0..MaxDims}

TagConfigTexts ==
    {[valid |-> FALSE, obj |-> <<>>], [valid |-> TRUE, obj |-> [k \in {"subtitle"} |-> "sub"]]}
    \cup {[valid |-> TRUE, obj |-> [k \in {"chart-dimensions"} |-> d]] : d \in DimLists}

TagCharts == [updated_at : Times, config : TagConfigTexts]

\* what `git rev-parse HEAD` wrote to stdout: a revision and a newline, or
\* nothing when git fails
GitStdouts == {<<"3", "f", "LF">>, <<>>}

----------------------------------------------------------------------------
(* Cache tag deriver: the method *)

DigitChar(d) ==
    CASE d = 0 -> "0" [] d = 1 -> "1" [] d = 2 -> "2" [] d = 3 -> "3"
      [] d = 4 -> "4" [] d = 5 -> "5" [] d = 6 -> "6" [] d = 7 -> "7"
      [] d = 8 -> "8" [] d = 9 -> "9"

RECURSIVE NatStr(_)
NatStr(n) ==
    IF n < 10 THEN <<DigitChar(n)>>
    ELSE NatStr(n \div 10) \o <<DigitChar(n % 10)>>

\* str(x.updated_at), x.updated_at a datetime or None
StrTime(t) == IF IsNull(t) THEN <<"N", "o", "n", "e">> ELSE NatStr(TheValue(t))

RECURSIVE Escaped(_)
Escaped(bytes) ==
    IF bytes = <<>> THEN <<>>
    ELSE (IF Head(bytes) = "LF" THEN <<"\\", "n">> ELSE <<Head(bytes)>>)
         \o Escaped(Tail(bytes))

\* str(git_commit) of a bytes object: b'...' with the newline escaped
owid_commit(stdout) == <<"b", "'">> \o Escaped(stdout) \o <<"'">>

RECURSIVE Join(_, _)
Join(sep, parts) ==
    IF parts = <<>> THEN <<>>
    ELSE IF Len(parts) = 1 THEN parts[1]
    ELSE parts[1] \o sep \o Join(sep, Tail(parts))

Plus == <<" ", "+", " ">>

\* int(d['variableId']); None where int() raises
IntOf(v) == IF "num" \in DOMAIN v THEN Some(v.num) ELSE ParseInt(v.str)

\* VarIds with the key misspelt ('variableid'): no dimension has it
VarIds_KeyMisspelt(dims) == <<>>

\* [int(d['variableId']) for d in dims if 'variableId' in d], as optional ints
VarIds(dims) ==
    LET withId == SelectSeq(dims, LAMBDA d : "variableId" \in DOMAIN d)
    IN  [i \in 1..Len(withId) |-> IntOf(withId[i].variableId)]

\* FilterPkIn without its filter (Variable.objects.all())
FilterPkIn_All(vs, varids) == DOMAIN vs

\* Variable.objects.filter(pk__in=varids): the matching rows, as a set
FilterPkIn(vs, varids) == {i \in DOMAIN vs : i \in Range(varids)}

\* the rows `ids` in the order `rank` lists them
Returns(rank, ids) == SelectSeq(rank, LAMBDA i : i \in ids)

\* hashlib.md5(...).hexdigest(), taken to be injective on its input
Digest(text) == [md5 |-> text]

\* `stdout` is what the git subprocess printed, `rank` the order in which the
\* store lists the rows it returns
make_cache_tag(chart, stdout, vs, rank) ==
    LET head == StrTime(Some(chart.updated_at)) \o Plus \o owid_commit(stdout)
    IN  IF ~chart.config.valid THEN Outcome("JSONDecodeError", <<>>)
        ELSE IF "chart-dimensions" \notin DOMAIN chart.config.obj
             THEN Outcome("KeyError", <<>>)
        ELSE LET varids == VarIds(chart.config.obj["chart-dimensions"])
             IN  IF \E i \in 1..Len(varids) : IsNull(varids[i])
                 THEN Outcome("ValueError", <<>>)
                 ELSE LET ids == [i \in 1..Len(varids) |-> TheValue(varids[i])]
                          vartimestamps == Returns(rank, FilterPkIn(vs, ids))
                          updated_at_list ==
                              [i \in 1..Len(vartimestamps) |->
                                  StrTime(vs[vartimestamps[i]])]
                      IN  Outcome("tag",
                                  Digest(head \o Join(Plus, updated_at_list)))

\* the orders the store may answer the Variable query of `chart` in
VariableOrders(chart, vs) ==
    IF chart.config.valid /\ "chart-dimensions" \in DOMAIN chart.config.obj
    THEN LET varids == VarIds(chart.config.obj["chart-dimensions"])
         IN  IF \E i \in 1..Len(varids) : IsNull(varids[i]) THEN {<<>>}
             ELSE Orders(FilterPkIn(vs, [i \in 1..Len(varids) |->
                                            TheValue(varids[i])]))
    ELSE {<<>>}

NoTag == [stdout |-> <<>>, rank |-> <<>>, outcome |-> Outcome("none", <<>>)]

MakeCacheTag ==
    /\ \E stdout \in GitStdouts, rank \in VariableOrders(tagChart, variables) :
          lastTag' = [stdout |-> stdout, rank |-> rank,
                      outcome |-> make_cache_tag(tagChart, stdout, variables, rank)]
    /\ UNCHANGED <<tagChart, variables, resolverVars, configVars>>

----------------------------------------------------------------------------------------------------------------------------------------------
(* Specifications: one per operation.  The store an operation reads is     *)
(* drawn from the bounded stores; the rows the other operations read are   *)
(* an empty store and a chart whose config does not decode.                *)

EmptyStore == <<>>

IdleCfgChart == CHOOSE c \in CfgCharts : ~c.config.valid

IdleTagChart == CHOOSE c \in TagCharts : ~c.config.valid

InitResolver ==
    /\ charts \in ChartStores
    /\ redirects \in RedirectStores
    /\ found = NoCall
    /\ cfgChart = IdleCfgChart /\ logos = EmptyStore /\ resolved = NoConfig
    /\ tagChart = IdleTagChart /\ variables = EmptyStore /\ lastTag = NoTag

InitConfig ==
    /\ cfgChart \in CfgCharts
    /\ logos \in LogoStores
    /\ resolved = NoConfig
    /\ charts = EmptyStore /\ redirects = EmptyStore /\ found = NoCall
    /\ tagChart = IdleTagChart /\ variables = EmptyStore /\ lastTag = NoTag

InitTag ==
    /\ tagChart \in TagCharts
    /\ variables \in VariableStores
    /\ lastTag = NoTag
    /\ charts = EmptyStore /\ redirects = EmptyStore /\ found = NoCall
    /\ cfgChart = IdleCfgChart /\ logos = EmptyStore /\ resolved = NoConfig

NextResolver == FindWithRedirects

NextConfig == GetConfigWithUrl

NextTag == MakeCacheTag

SpecResolver == InitResolver /\ [][NextResolver]_vars

SpecConfig == InitConfig /\ [][NextConfig]_vars

SpecTag == InitTag /\ [][NextTag]_vars

----------------------------------------------------------------------------
(* Properties of the slug redirect resolver (specification SpecResolver) *)

Called == found.outcome.kind # "none"

\* the charts of the store that the identifier names directly, published or not
DirectMatches(slug) ==
    {i \in DOMAIN charts :
        \/ charts[i].slug = Some(slug)
        \/ ParseInt(slug) = Some(i)}

IsPublished(i) == i \in DOMAIN charts /\ charts[i].published = Some(TRUE)

\* C1: find_with_redirects only ever returns a published chart, whether it
\* is reached directly or through a redirect row, and an identifier that
\* names only unpublished charts (and has no redirect row) gets the
\* not-found outcome.
C1_OnlyPublishedReturned ==
    Called =>
        /\ found.outcome.kind = "chart" => IsPublished(found.outcome.id)
        /\ ( /\ DirectMatches(found.slug) # {}
             /\ \A i \in DirectMatches(found.slug) : ~IsPublished(i)
             /\ found.slug \notin DOMAIN redirects )
           => found.outcome.kind = "False"

\* C2: when no chart matches the identifier directly and a redirect row for
\* the identifier points at an id that has no published chart, the outcome
\* is the dangling-redirect fault (the exception of the second lookup), which
\* is never the not-found value False.
C2_DanglingRedirectSurfaced ==
    ( /\ Called
      /\ DirectMatches(found.slug) = {}
      /\ found.slug \in DOMAIN redirects
      /\ ~IsPublished(redirects[found.slug]) )
    => found.outcome.kind = "DoesNotExist"

\* C3: a chart that matches directly (by slug, or by id when the identifier
\* parses as an integer) is returned; otherwise the chart a redirect row of
\* the identifier points at is returned when it exists; otherwise, with no
\* redirect row, the result is False.  An identifier that does not parse is
\* matched by slug alone and is no error.
C3_TwoStageLookup ==
    Called =>
        LET slug == found.slug
            direct == DirectMatches(slug)
            bySlug == {i \in DOMAIN charts : charts[i].slug = Some(slug)}
        IN  /\ direct # {} =>
                (found.outcome.kind = "chart" /\ found.outcome.id \in direct)
            /\ (direct = {} /\ slug \in DOMAIN redirects
                    /\ redirects[slug] \in DOMAIN charts) =>
                found.outcome = Returned("chart", redirects[slug])
            /\ (direct = {} /\ slug \notin DOMAIN redirects) =>
                found.outcome.kind = "False"
            /\ IsNull(ParseInt(slug)) =>
                (direct = bySlug /\ found.outcome.kind # "ValueError")

\* C10: in a store that satisfies the (slug, published) uniqueness
\* constraint, at most one chart satisfies the first-stage predicate of any
\* identifier, so the first-stage lookup never fails with a
\* multiple-matches error.
C10_FirstStageUnique ==
    /\ UniqueSlugPublished(charts)
    /\ Called =>
        /\ Cardinality({i \in DirectMatches(found.slug) :
                            ~IsNull(charts[i].published)}) <= 1
        /\ found.outcome.kind # "MultipleObjectsReturned"

----------------------------------------------------------------------------
(* Properties of the config resolver (specification SpecConfig) *)

Resolved == resolved.outcome.kind # "none"

\* the relational field each override key is set from
FieldOf(chart, k) ==
    CASE k = "id" -> chart.pk
      [] k = "title" -> chart.name
      [] k = "chart-type" -> chart.type
      [] k = "internalNotes" -> chart.notes
      [] k = "slug" -> chart.slug
      [] k = "data-entry-url" -> chart.origin_url
      [] k = "published" -> chart.published

OverridesHold(config, chart) ==
    \A k \in OverrideKeys : k \in DOMAIN config /\ config[k] = FieldOf(chart, k)

\* C4: for every chart whose stored configuration is a valid JSON object,
\* get_config_with_url returns an object whose seven override keys equal
\* the chart's relational fields and in which every other key of the stored
\* blob keeps its stored value.
C4_OverridesAndKeepsRest ==
    (Resolved /\ cfgChart.config.valid) =>
        /\ resolved.outcome.kind = "config"
        /\ OverridesHold(resolved.outcome.value, cfgChart)
        /\ \A k \in (DOMAIN cfgChart.config.obj) \ OverrideKeys :
              /\ k \in DOMAIN resolved.outcome.value
              /\ resolved.outcome.value[k] = cfgChart.config.obj[k]

HasLogo(name) == \E row \in DOMAIN logos : logos[row] = name

\* C5: logosSVG has the length and the order of the subsequence of the
\* requested logo names that have a Logo row: its i-th payload belongs to
\* the i-th requested name that matched, whatever order the store returns
\* the rows in.
C5_LogosInRequestedOrder ==
    (Resolved /\ resolved.outcome.kind = "config") =>
        LET matched == SelectSeq(cfgChart.config.obj["logos"], HasLogo)
            svgs == resolved.outcome.value["logosSVG"]
        IN  /\ Len(svgs) = Len(matched)
            /\ \A i \in 1..Len(matched) :
                  \E row \in DOMAIN logos :
                      logos[row] = matched[i] /\ svgs[i] = SvgOf(row)

\* C8: a chart whose valid JSON configuration has no `logos` key is resolved
\* without error as if `logos` were the empty list: the result has an empty
\* logosSVG and all override keys.
C8_MissingLogosIsEmptyList ==
    (Resolved /\ cfgChart.config.valid /\ "logos" \notin DOMAIN cfgChart.config.obj) =>
        /\ resolved.outcome.kind = "config"
        /\ resolved.outcome.value["logosSVG"] = <<>>
        /\ OverridesHold(resolved.outcome.value, cfgChart)

----------------------------------------------------------------------------
(* Properties of the cache tag deriver (specification SpecTag) *)

Tagged == lastTag.outcome.kind # "none"

HasDimensions ==
    tagChart.config.valid /\ "chart-dimensions" \in DOMAIN tagChart.config.obj

\* the variable ids the chart's dimensions name
RefIds ==
    IF ~HasDimensions THEN {}
    ELSE LET dims == tagChart.config.obj["chart-dimensions"]
         IN  {TheValue(IntOf(dims[i].variableId)) :
                 i \in {j \in 1..Len(dims) : "variableId" \in DOMAIN dims[j]}}

\* a store with the same variables `refs` and the same timestamps of them
SameReferenced(refs, vs) ==
    \A i \in refs :
        /\ i \in DOMAIN vs <=> i \in DOMAIN variables
        /\ i \in DOMAIN variables => vs[i] = variables[i]

\* C6 as stated: a second computation with the same chart timestamp, the
\* same build identifier and the same referenced variables with the same
\* timestamps returns the same tag, also when the store returns the rows in
\* another order.
C6_SameTagAnyOrder ==
    Tagged =>
        LET refs == RefIds
        IN  \A vs \in VariableStores, rank \in Ranks :
                SameReferenced(refs, vs) =>
                    make_cache_tag(tagChart, lastTag.stdout, vs, rank)
                        = lastTag.outcome

\* C6 amended: a second computation with the same chart timestamp, the same
\* build identifier and the same referenced variables with the same
\* timestamps has the same outcome when the store returns the variable rows
\* in the same order; nothing else in the store changes the tag.
C6_SameTagSameOrder ==
    Tagged =>
        LET refs == RefIds
        IN  \A vs \in VariableStores :
                SameReferenced(refs, vs) =>
                    make_cache_tag(tagChart, lastTag.stdout, vs, lastTag.rank)
                        = lastTag.outcome

\* a tag was computed from two referenced variables whose timestamps
\* differ, so that the order of the returned rows shows in the tag
C6_Witness ==
    /\ lastTag.outcome.kind = "tag"
    /\ \E i, j \in RefIds \cap DOMAIN variables : variables[i] # variables[j]

\* C7: a chart whose valid JSON configuration has no `chart-dimensions` key,
\* or whose dimensions carry no `variableId`, still gets a tag: the digest of
\* the chart timestamp and the build identifier, no variable contributing.
C7_NoVariablesStillTagged ==
    (Tagged /\ tagChart.config.valid /\ RefIds = {}) =>
        lastTag.outcome =
            Outcome("tag", Digest(StrTime(Some(tagChart.updated_at)) \o Plus
                                      \o owid_commit(lastTag.stdout)))

\* the chart without the dimensions that name the variable ids `gone`
WithoutDimsOf(chart, gone) ==
    [chart EXCEPT !.config.obj =
        [k \in {"chart-dimensions"} |->
            SelectSeq(chart.config.obj["chart-dimensions"],
                      LAMBDA d : ~("variableId" \in DOMAIN d
                                   /\ TheValue(IntOf(d.variableId)) \in gone))]]

\* C9: with the digest injective, changing the update timestamp of a
\* variable that the dimensions name and the store holds (all else equal,
\* same return order) changes the tag; an id the dimensions name that the
\* store lacks is no error and contributes nothing to the tag.
C9_ReferencedTimestampChangesTag ==
    (Tagged /\ RefIds # {}) =>
        /\ lastTag.outcome.kind = "tag"
        /\ \A v \in RefIds \cap DOMAIN variables :
              \A t \in ({None} \cup {Some(x) : x \in Times}) \ {variables[v]} :
                  make_cache_tag(tagChart, lastTag.stdout,
                                 [variables EXCEPT ![v] = t], lastTag.rank)
                      # lastTag.outcome
        /\ lastTag.outcome =
              make_cache_tag(WithoutDimsOf(tagChart, RefIds \ DOMAIN variables),
                             lastTag.stdout, variables, lastTag.rank)

\* a tag was computed for a chart that names a stored variable and a
\* variable id the store lacks
C9_Witness ==
    /\ lastTag.outcome.kind = "tag"
    /\ RefIds \cap DOMAIN variables # {}
    /\ RefIds \ DOMAIN variables # {}

====
